---------------------------- MODULE Spec2Model ----------------------------
(***************************************************************************)
(* Plan / execute / replan agent loop over a node-edge canvas.             *)
(*                                                                         *)
(* Two builds of the loop live in the repository and both are modelled:    *)
(*   variant = "backend" : src/backend/toy_agent.py driven by              *)
(*                         src/backend/api.py (one canvas per session id), *)
(*   variant = "cli"     : src/toy_agent.py (module-global CANVAS_DB).     *)
(*                                                                         *)
(* The three language-model calls (planner, executor, replanner) are       *)
(* external: their answers are drawn from small sets, and each may fail.   *)
(* The executor is the only agent with tools; while its call is in flight  *)
(* it may call tool_add_node / tool_connect_nodes with any arguments.      *)
(***************************************************************************)
EXTENDS Integers, Sequences, FiniteSets, TLC

(***************************************************************************)
(* Bounds of the model.                                                    *)
(***************************************************************************)
MaxPlanLen == 2      \* longest step list an external answer carries
MaxCycles == 2       \* Execute phases on a non-empty plan, per request
MaxToolCalls == 1    \* tool calls the executor makes in one Execute phase
MaxNodes == 2        \* uuid4 values issued (nodes created) in one run
MaxEdges == 1        \* edges in one canvas
MaxReplans == 3      \* Replan phases one response stream reports

(***************************************************************************)
(* Input alphabets.                                                        *)
(***************************************************************************)
Variants == {"backend", "cli"}
SessionIds == {"default"}
Goals == {"g1"}
Steps == {"s1", "s2"}
Outputs == {"ok"}
Types == {"source"}
Labels == {"A", "a", "B"}
Responses == {"", "Done"}

VARIABLES
    variant,          \* which build runs
    SESSIONS,         \* api.py: session id -> canvas of its AgentDeps
    CANVAS_DB,        \* src/toy_agent.py: the module-global canvas
    uuids,            \* number of uuid4() values issued so far
    session,          \* request.id of the request being served
    pc,               \* graph node about to run / in flight
    input,            \* PlanExecuteState.input
    plan,             \* PlanExecuteState.plan
    past_steps,       \* PlanExecuteState.past_steps
    response,         \* PlanExecuteState.response
    step_to_execute,  \* executor_step_node's local while its call is in flight
    calls,            \* tool calls made by the executor call in flight
    cycle,            \* Execute phases completed on a non-empty plan
    tool_ret,         \* value the last tool call returned to the executor
    parked,           \* loop state of the request whose task is suspended
    gen,              \* chat.event_generator: idle, streaming, raised, done
    stream,           \* records the generator has yielded for the request
    all_past_steps,   \* event_generator's local all_past_steps
    current_remaining_plan,  \* event_generator's local of that name
    call_ids          \* number of toolCallId values issued so far

\* The state of one request's graph run and of the tool call it has in flight.
loopVars == <<session, pc, input, plan, past_steps, response, step_to_execute,
              calls, cycle, tool_ret>>

\* chat.event_generator's own state.
apiVars == <<gen, stream, all_past_steps, current_remaining_plan, call_ids>>

vars == <<variant, SESSIONS, CANVAS_DB, uuids, session, pc, input, plan,
          past_steps, response, step_to_execute, calls, cycle, tool_ret,
          parked, gen, stream, all_past_steps, current_remaining_plan,
          call_ids>>

(***************************************************************************)
(* Python values.                                                          *)
(***************************************************************************)
\* Optional[List[str]]: None, or a list.
None == [isNone |-> TRUE, steps |-> <<>>]
PyList(l) == [isNone |-> FALSE, steps |-> l]

\* Optional[str] None, and an absent "response" key (state.get gives None).
NoneStr == "<None>"

\* bool(x) of an Optional[List[str]].
TruthyList(p) == ~p.isNone /\ p.steps # <<>>

\* bool(x) of an Optional[str].
TruthyStr(s) == s # NoneStr /\ s # ""

\* str.lower() on the label alphabet.
Lower(s) == CASE s = "A" -> "a"
              [] s = "B" -> "b"
              [] OTHER -> s

SeqsUpTo(S, n) == UNION {[1..k -> S] : k \in 0..n}


(***************************************************************************)
(* Canvas store.                                                           *)
(***************************************************************************)
EmptyCanvas == [nodes |-> <<>>, edges |-> <<>>]

\* Faulty variant: the snapshot is a stale copy that lacks the newest node.
get_state_Stale(c) ==
    [nodes |-> SubSeq(c.nodes, 1, Len(c.nodes) - 1), edges |-> c.edges]

\* InMemoryCanvas.get_state: the node and edge lists as they are now.
get_state(c) == [nodes |-> c.nodes, edges |-> c.edges]

\* InMemoryCanvas.add_node / CANVAS_DB["nodes"].append
add_node(c, node) == [c EXCEPT !.nodes = Append(@, node)]

\* InMemoryCanvas.add_edge / CANVAS_DB["edges"].append
add_edge(c, edge) == [c EXCEPT !.edges = Append(@, edge)]

\* Faulty variant: every request is handed a new, empty canvas.
get_or_create_session_AlwaysNew(sessions, session_id) ==
    [k \in DOMAIN sessions \cup {session_id} |->
        IF k = session_id THEN EmptyCanvas ELSE sessions[k]]

\* get_or_create_session: the map with session_id present.
get_or_create_session(sessions, session_id) ==
    IF session_id \in DOMAIN sessions
        THEN sessions
        ELSE [k \in DOMAIN sessions \cup {session_id} |->
                IF k = session_id THEN EmptyCanvas ELSE sessions[k]]

\* The canvas the agents of the current request are bound to (deps.canvas).
Canvas == IF variant = "cli" THEN CANVAS_DB ELSE SESSIONS[session]

\* Faulty variant: a tool call writes through to the canvas of every session.
SetCanvas_AllSessions(c) ==
    IF variant = "cli"
        THEN CANVAS_DB' = c /\ UNCHANGED SESSIONS
        ELSE SESSIONS' = [k \in DOMAIN SESSIONS |-> c] /\ UNCHANGED CANVAS_DB

\* The canvas object is mutated in place (cli: the module-level CANVAS_DB).
SetCanvas(c) ==
    IF variant = "cli"
        THEN CANVAS_DB' = c /\ UNCHANGED SESSIONS
        ELSE SESSIONS' = [SESSIONS EXCEPT ![session] = c] /\ UNCHANGED CANVAS_DB

(***************************************************************************)
(* Tool layer.                                                             *)
(***************************************************************************)
\* Faulty variant: the id generator hands out the previous id again.
uuid4_Reused == IF uuids = 0 THEN 1 ELSE uuids

\* str(uuid4()): a value never issued before (ids are numbered in issue order).
uuid4 == uuids + 1

\* Faulty variant: the last matching node is taken instead of the first.
FirstMatch_Last(nodes, label) ==
    LET M == {i \in 1..Len(nodes) : Lower(nodes[i].label) = Lower(label)}
    IN  IF M = {} THEN 0 ELSE CHOOSE i \in M : \A j \in M : i >= j

\* next((n for n in nodes if n['label'].lower() == label.lower()), None):
\* the index of the first match, 0 for None.
FirstMatch(nodes, label) ==
    LET M == {i \in 1..Len(nodes) : Lower(nodes[i].label) = Lower(label)}
    IN  IF M = {} THEN 0 ELSE CHOOSE i \in M : \A j \in M : i <= j

NoRet == [status |-> "", msg |-> <<>>, id |-> 0]

\* tool_add_node: the canvas after the call and the value returned.
AddNodeResult(c, type, label) ==
    LET new_id == uuid4
        node == [id |-> new_id, type |-> type, label |-> label]
    IN  [canvas |-> add_node(c, node),
         ret |-> [status |-> "success", msg |-> <<"Added node", label>>,
                  id |-> new_id]]

\* Faulty variant: the target is checked before the source.
ConnectNodesResult_TargetFirst(c, source_label, target_label) ==
    LET nodes == get_state(c).nodes
        s_node == FirstMatch(nodes, source_label)
        t_node == FirstMatch(nodes, target_label)
    IN  IF t_node = 0
            THEN [canvas |-> c,
                  ret |-> [status |-> "Error",
                           msg |-> <<"Target node", target_label, "not found.">>,
                           id |-> 0]]
        ELSE IF s_node = 0
            THEN [canvas |-> c,
                  ret |-> [status |-> "Error",
                           msg |-> <<"Source node", source_label, "not found.">>,
                           id |-> 0]]
        ELSE [canvas |-> add_edge(c, [source |-> nodes[s_node].id,
                                      target |-> nodes[t_node].id]),
              ret |-> [status |-> "success",
                       msg |-> <<"Connected", source_label, target_label>>,
                       id |-> 0]]

\* Faulty variant: a missing target is not checked; the edge is closed on
\* the source node.
ConnectNodesResult_NoTargetCheck(c, source_label, target_label) ==
    LET nodes == get_state(c).nodes
        s_node == FirstMatch(nodes, source_label)
        t_node == FirstMatch(nodes, target_label)
    IN  IF s_node = 0
            THEN [canvas |-> c,
                  ret |-> [status |-> "Error",
                           msg |-> <<"Source node", source_label, "not found.">>,
                           id |-> 0]]
        ELSE [canvas |-> add_edge(c, [source |-> nodes[s_node].id,
                                      target |-> nodes[IF t_node = 0 THEN s_node
                                                       ELSE t_node].id]),
              ret |-> [status |-> "success",
                       msg |-> <<"Connected", source_label, target_label>>,
                       id |-> 0]]

\* Faulty variant: a missing target is not checked; the edge is closed on an
\* id no node carries.
ConnectNodesResult_DanglingTarget(c, source_label, target_label) ==
    LET nodes == get_state(c).nodes
        s_node == FirstMatch(nodes, source_label)
        t_node == FirstMatch(nodes, target_label)
    IN  IF s_node = 0
            THEN [canvas |-> c,
                  ret |-> [status |-> "Error",
                           msg |-> <<"Source node", source_label, "not found.">>,
                           id |-> 0]]
        ELSE [canvas |-> add_edge(c, [source |-> nodes[s_node].id,
                                      target |-> IF t_node = 0 THEN 0
                                                 ELSE nodes[t_node].id]),
              ret |-> [status |-> "success",
                       msg |-> <<"Connected", source_label, target_label>>,
                       id |-> 0]]

\* Faulty variant: the edge is built the wrong way round.
ConnectNodesResult_Reversed(c, source_label, target_label) ==
    LET nodes == get_state(c).nodes
        s_node == FirstMatch(nodes, source_label)
        t_node == FirstMatch(nodes, target_label)
    IN  IF s_node = 0
            THEN [canvas |-> c,
                  ret |-> [status |-> "Error",
                           msg |-> <<"Source node", source_label, "not found.">>,
                           id |-> 0]]
        ELSE IF t_node = 0
            THEN [canvas |-> c,
                  ret |-> [status |-> "Error",
                           msg |-> <<"Target node", target_label, "not found.">>,
                           id |-> 0]]
        ELSE [canvas |-> add_edge(c, [source |-> nodes[t_node].id,
                                      target |-> nodes[s_node].id]),
              ret |-> [status |-> "success",
                       msg |-> <<"Connected", source_label, target_label>>,
                       id |-> 0]]

\* tool_connect_nodes: the canvas after the call and the value returned.
ConnectNodesResult(c, source_label, target_label) ==
    LET nodes == get_state(c).nodes
        s_node == FirstMatch(nodes, source_label)
        t_node == FirstMatch(nodes, target_label)
    IN  IF s_node = 0
            THEN [canvas |-> c,
                  ret |-> [status |-> "Error",
                           msg |-> <<"Source node", source_label, "not found.">>,
                           id |-> 0]]
        ELSE IF t_node = 0
            THEN [canvas |-> c,
                  ret |-> [status |-> "Error",
                           msg |-> <<"Target node", target_label, "not found.">>,
                           id |-> 0]]
        ELSE [canvas |-> add_edge(c, [source |-> nodes[s_node].id,
                                      target |-> nodes[t_node].id]),
              ret |-> [status |-> "success",
                       msg |-> <<"Connected", source_label, target_label>>,
                       id |-> 0]]

(***************************************************************************)
(* Graph wiring.                                                           *)
(***************************************************************************)
\* workflow.set_entry_point
EntryPoint == "planner"

\* Faulty variant: the planner is wired straight to the replanner.
Edge_SkipsExecutor(node) == "re_planner"

\* workflow.add_edge("planner", "executor"), add_edge("executor", "re_planner")
Edge(node) == CASE node = "planner" -> "executor"
                [] node = "executor" -> "re_planner"

\* Faulty variant: the conditional edge never leaves the loop.
planner_edge_NeverEnds(resp) == "executor"

\* planner_edge: the conditional edge out of re_planner.
planner_edge(resp) == IF TruthyStr(resp) THEN "END" ELSE "executor"

\* The past_steps channel: operator.add in the backend build, last value
\* written in the cli build (the key carries no reducer there).
ReducePastSteps(old, update) ==
    IF variant = "backend" THEN old \o update ELSE update

\* The loop state of a task slot no request has used yet.
IdleLoop ==
    [session |-> "default", pc |-> "idle", input |-> "", plan |-> PyList(<<>>),
     past_steps |-> <<>>, response |-> NoneStr, step_to_execute |-> "",
     calls |-> 0, cycle |-> 0, tool_ret |-> NoRet]

(***************************************************************************)
(* Initial state: the module is loaded, no request has been made.         *)
(***************************************************************************)
Init ==
    /\ variant \in Variants
    /\ SESSIONS = [k \in {} |-> EmptyCanvas]
    /\ CANVAS_DB = EmptyCanvas
    /\ uuids = 0
    /\ session = "default"
    /\ pc = "idle"
    /\ input = ""
    /\ plan = PyList(<<>>)
    /\ past_steps = <<>>
    /\ response = NoneStr
    /\ step_to_execute = ""
    /\ calls = 0
    /\ cycle = 0
    /\ tool_ret = NoRet
    /\ parked = IdleLoop
    /\ gen = "idle"
    /\ stream = <<>>
    /\ all_past_steps = <<>>
    /\ current_remaining_plan = PyList(<<>>)
    /\ call_ids = 0

(***************************************************************************)
(* A request starts: chat.event_generator / main's loop body build the     *)
(* inputs {input, plan: [], past_steps: []} and enter the graph.  In the   *)
(* cli build an exception leaves main, so no request follows a failure.    *)
(***************************************************************************)
StartRequest(sid, goal) ==
    /\ pc \in (IF variant = "cli" THEN {"idle", "END"}
                                  ELSE {"idle", "END", "failed"})
    /\ IF variant = "cli"
          THEN UNCHANGED <<SESSIONS, session>>
          ELSE /\ SESSIONS' = get_or_create_session(SESSIONS, sid)
               /\ session' = sid
    /\ input' = goal
    /\ plan' = PyList(<<>>)
    /\ past_steps' = <<>>
    /\ response' = NoneStr
    /\ pc' = EntryPoint
    /\ step_to_execute' = ""
    /\ calls' = 0
    /\ cycle' = 0
    /\ tool_ret' = NoRet
    /\ UNCHANGED <<variant, CANVAS_DB, uuids>>

\* planner_node: the planner's answer becomes the plan.
PlannerNode(steps) ==
    /\ pc = "planner"
    /\ plan' = PyList(steps)
    /\ pc' = Edge("planner")
    /\ UNCHANGED <<variant, SESSIONS, CANVAS_DB, uuids, session, input,
                   past_steps, response, step_to_execute, calls, cycle, tool_ret>>

\* executor_step_node (backend) on an empty or missing plan: no call is made.
ExecutorNoop ==
    /\ pc = "executor"
    /\ variant = "backend"
    /\ ~TruthyList(plan)
    /\ past_steps' = ReducePastSteps(past_steps, <<>>)
    /\ pc' = Edge("executor")
    /\ UNCHANGED <<variant, SESSIONS, CANVAS_DB, uuids, session, input, plan,
                   response, step_to_execute, calls, cycle, tool_ret>>

\* executor_step_node (cli) on an empty or missing plan: state['plan'][0]
\* raises (IndexError / TypeError) and the run ends with the exception.
ExecutorRaise ==
    /\ pc = "executor"
    /\ variant = "cli"
    /\ ~TruthyList(plan)
    /\ pc' = "failed"
    /\ UNCHANGED <<variant, SESSIONS, CANVAS_DB, uuids, session, input, plan,
                   past_steps, response, step_to_execute, calls, cycle, tool_ret>>

\* executor_step_node up to its await: the first plan element is handed to
\* the executor agent.
ExecutorBegin ==
    /\ pc = "executor"
    /\ TruthyList(plan)
    /\ step_to_execute' = plan.steps[1]
    /\ calls' = 0
    /\ tool_ret' = NoRet
    /\ pc' = "executor_run"
    /\ UNCHANGED <<variant, SESSIONS, CANVAS_DB, uuids, session, input, plan,
                   past_steps, response, cycle>>

\* The executor agent calls tool_add_node.
ToolAddNode(type, label) ==
    /\ pc = "executor_run"
    /\ LET r == AddNodeResult(Canvas, type, label)
       IN  /\ SetCanvas(r.canvas)
           /\ tool_ret' = r.ret
    /\ uuids' = uuids + 1
    /\ calls' = calls + 1
    /\ UNCHANGED <<variant, session, pc, input, plan, past_steps, response,
                   step_to_execute, cycle>>

\* The executor agent calls tool_connect_nodes.
ToolConnectNodes(source_label, target_label) ==
    /\ pc = "executor_run"
    /\ LET r == ConnectNodesResult(Canvas, source_label, target_label)
       IN  /\ SetCanvas(r.canvas)
           /\ tool_ret' = r.ret
    /\ calls' = calls + 1
    /\ UNCHANGED <<variant, uuids, session, pc, input, plan, past_steps,
                   response, step_to_execute, cycle>>

\* Faulty variant: the executor removes the step it ran from the plan.
ExecutorReturn_PopsPlan(output) ==
    /\ pc = "executor_run"
    /\ past_steps' = ReducePastSteps(past_steps, <<<<step_to_execute, output>>>>)
    /\ plan' = PyList(Tail(plan.steps))
    /\ pc' = Edge("executor")
    /\ cycle' = cycle + 1
    /\ step_to_execute' = ""
    /\ calls' = 0
    /\ tool_ret' = NoRet
    /\ UNCHANGED <<variant, SESSIONS, CANVAS_DB, uuids, session, input, response>>

\* executor_step_node after its await: (step, str(output)) goes to past_steps.
ExecutorReturn(output) ==
    /\ pc = "executor_run"
    /\ past_steps' = ReducePastSteps(past_steps, <<<<step_to_execute, output>>>>)
    /\ pc' = Edge("executor")
    /\ cycle' = cycle + 1
    /\ step_to_execute' = ""
    /\ calls' = 0
    /\ tool_ret' = NoRet
    /\ UNCHANGED <<variant, SESSIONS, CANVAS_DB, uuids, session, input, plan,
                   response>>

\* Faulty variant: the replanner's remaining steps are dropped and the old
\* plan is kept.
ReplannerNode_KeepsOldPlan(decision_response, decision_plan) ==
    /\ pc = "re_planner"
    /\ IF TruthyStr(decision_response)
          THEN /\ response' = decision_response
               /\ plan' = PyList(<<>>)
          ELSE UNCHANGED <<plan, response>>
    /\ pc' = planner_edge(response')
    /\ UNCHANGED <<variant, SESSIONS, CANVAS_DB, uuids, session, input,
                   past_steps, step_to_execute, calls, cycle, tool_ret>>

\* replanner_node followed by planner_edge: a non-empty response ends the
\* loop with the plan cleared, anything else writes decision.plan.
ReplannerNode(decision_response, decision_plan) ==
    /\ pc = "re_planner"
    /\ IF TruthyStr(decision_response)
          THEN /\ response' = decision_response
               /\ plan' = PyList(<<>>)
          ELSE /\ plan' = decision_plan
               /\ UNCHANGED response
    /\ pc' = planner_edge(response')
    /\ UNCHANGED <<variant, SESSIONS, CANVAS_DB, uuids, session, input,
                   past_steps, step_to_execute, calls, cycle, tool_ret>>

\* Faulty variant: the exception is swallowed and the run goes on to the
\* phase after the failed one.
ExternalFail_Swallowed ==
    /\ pc \in {"planner", "executor_run", "re_planner"}
    /\ pc' = CASE pc = "planner" -> "executor"
                [] pc = "executor_run" -> "re_planner"
                [] pc = "re_planner" -> "executor"
    /\ UNCHANGED <<variant, SESSIONS, CANVAS_DB, uuids, session, input, plan,
                   past_steps, response, step_to_execute, calls, cycle, tool_ret>>

\* planner_agent.run / executor_agent.run / replanner_agent.run raises: the
\* exception leaves the graph run.
ExternalFail ==
    /\ pc \in {"planner", "executor_run", "re_planner"}
    /\ pc' = "failed"
    /\ UNCHANGED <<variant, SESSIONS, CANVAS_DB, uuids, session, input, plan,
                   past_steps, response, step_to_execute, calls, cycle, tool_ret>>

StepLists == SeqsUpTo(Steps, MaxPlanLen)
OptionalPlans == {None} \cup {PyList(l) : l \in StepLists}
OptionalResponses == {NoneStr} \cup Responses

(***************************************************************************)
(* The bounds of the model, as guards on the steps they cut off.           *)
(***************************************************************************)
MayBegin == cycle < MaxCycles

MayCallTool == pc = "executor_run" /\ calls < MaxToolCalls

MayAddNode == MayCallTool /\ uuids < MaxNodes

MayConnect(s, t) ==
    /\ MayCallTool
    /\ Len(ConnectNodesResult(Canvas, s, t).canvas.edges) <= MaxEdges

\* What a step of the graph run leaves alone: the suspended task and the
\* event generator.
LoopOnly == UNCHANGED <<parked, apiVars>>

Next ==
    \/ \E sid \in SessionIds, goal \in Goals :
          StartRequest(sid, goal) /\ LoopOnly
    \/ \E steps \in StepLists : PlannerNode(steps) /\ LoopOnly
    \/ ExecutorNoop /\ LoopOnly
    \/ ExecutorRaise /\ LoopOnly
    \/ MayBegin /\ ExecutorBegin /\ LoopOnly
    \/ \E type \in Types, label \in Labels :
          MayAddNode /\ ToolAddNode(type, label) /\ LoopOnly
    \/ \E s \in Labels, t \in Labels :
          MayConnect(s, t) /\ ToolConnectNodes(s, t) /\ LoopOnly
    \/ \E output \in Outputs : ExecutorReturn(output) /\ LoopOnly
    \/ \E r \in OptionalResponses, p \in OptionalPlans :
          ReplannerNode(r, p) /\ LoopOnly
    \/ ExternalFail /\ LoopOnly

\* Requests are served one after another (the cli build's main loop; a
\* client of the backend build that awaits each response).  The event
\* generator of api.py only observes the run and is left out here.
Spec == Init /\ [][Next]_vars


(***************************************************************************)
(* The HTTP endpoint: chat.event_generator consumes the events of one      *)
(* graph run and yields the records of the response stream.  gen is the    *)
(* generator's position: "idle" before the first request, "streaming"      *)
(* inside the async for, "raised" after an exception left it, "done" after *)
(* the last yield.                                                         *)
(***************************************************************************)
ApiSteps == {"s1"}
ApiLabels == {"A"}
ApiConnectLabels == {"A", "B"}   \* "B" names a node that is never added
ApiStepLists == SeqsUpTo(ApiSteps, MaxPlanLen)
ApiOptionalPlans == {None} \cup {PyList(l) : l \in ApiStepLists}

\* {"type": "reasoning_chunk", "text": text + "\n"}
ReasoningChunk(text) == [type |-> "reasoning_chunk", text |-> text]

\* Faulty variant: the result record is given an id of its own.
ToolCallRecords_TwoIds(id, tool_name, tool_input, tool_output) ==
    << [type |-> "tool_call",
        tool |-> [type |-> "tool-call", toolCallId |-> id,
                  toolName |-> tool_name, input |-> tool_input,
                  state |-> "input-available"]],
       [type |-> "tool_call",
        tool |-> [type |-> "tool-result", toolCallId |-> id + 1,
                  toolName |-> tool_name, input |-> tool_input,
                  result |-> tool_output, state |-> "output-available"]] >>

\* The two records yielded for one custom_tool_call event.
ToolCallRecords(id, tool_name, tool_input, tool_output) ==
    << [type |-> "tool_call",
        tool |-> [type |-> "tool-call", toolCallId |-> id,
                  toolName |-> tool_name, input |-> tool_input,
                  state |-> "input-available"]],
       [type |-> "tool_call",
        tool |-> [type |-> "tool-result", toolCallId |-> id,
                  toolName |-> tool_name, input |-> tool_input,
                  result |-> tool_output, state |-> "output-available"]] >>

\* A plan item as it is shown: f"✅ {s[0]}" for a completed step, the step
\* text itself for a remaining one.
CompletedItems(past) ==
    [i \in 1..Len(past) |-> [checked |-> TRUE, text |-> past[i][1]]]

RemainingItems(steps) ==
    [i \in 1..Len(steps) |-> [checked |-> FALSE, text |-> steps[i]]]

\* {"type": "tasks", "data": [{"title": "Execution Plan", "items": items}]}
TasksRecord(items) ==
    [type |-> "tasks", title |-> "Execution Plan", items |-> items]

\* final_msg: the fixed heading and the canvas state as json.
FinalMsg(c) == [heading |-> "Execution Complete", canvas |-> get_state(c)]

ContentChunk(text) == [type |-> "content_chunk", text |-> text]

DoneRecord == [type |-> "done"]

\* The plan a re_planner output carries under its "plan" key.
ReplannerOutputPlan(decision_response, decision_plan) ==
    IF TruthyStr(decision_response) THEN PyList(<<>>) ELSE decision_plan

\* chat: a request arrives and event_generator runs up to its async for.
ChatStart(sid, goal) ==
    /\ gen \in {"idle", "done", "raised"}
    /\ StartRequest(sid, goal)
    /\ gen' = "streaming"
    /\ stream' = <<>>
    /\ all_past_steps' = <<>>
    /\ current_remaining_plan' = PyList(<<>>)
    /\ UNCHANGED <<parked, call_ids>>

\* planner: two custom_reasoning events, then on_chain_end with the plan.
OnPlanner(steps) ==
    /\ gen = "streaming"
    /\ PlannerNode(steps)
    /\ current_remaining_plan' = PyList(steps)
    /\ stream' = stream \o
          << ReasoningChunk(<<"[Planner] Creating plan">>),
             ReasoningChunk(<<"[Planner] Plan created", Len(steps)>>),
             TasksRecord(RemainingItems(steps)) >>
    /\ UNCHANGED <<parked, gen, all_past_steps, call_ids>>

\* executor on an empty plan: on_chain_end with past_steps = [].
OnExecutorNoop ==
    /\ gen = "streaming"
    /\ ExecutorNoop
    /\ all_past_steps' = all_past_steps \o <<>>
    /\ UNCHANGED <<parked, gen, stream, current_remaining_plan, call_ids>>

\* executor up to its await: one custom_reasoning event.
OnExecutorBegin ==
    /\ gen = "streaming"
    /\ ExecutorBegin
    /\ stream' = stream \o
          << ReasoningChunk(<<"[Executor] Executing step", plan.steps[1]>>) >>
    /\ UNCHANGED <<parked, gen, all_past_steps, current_remaining_plan, call_ids>>

\* tool_add_node dispatches custom_tool_call; the generator yields the pair.
OnToolAddNode(type, label) ==
    /\ gen = "streaming"
    /\ ToolAddNode(type, label)
    /\ call_ids' = call_ids + 1
    /\ stream' = stream \o
          ToolCallRecords(call_ids + 1, "add_node",
                          [type |-> type, label |-> label],
                          [id |-> uuid4, status |-> "success"])
    /\ UNCHANGED <<parked, gen, all_past_steps, current_remaining_plan>>

\* Faulty variant: connect_nodes reports its call also when it failed.
OnToolConnectNodes_AlwaysReports(source_label, target_label) ==
    /\ gen = "streaming"
    /\ ToolConnectNodes(source_label, target_label)
    /\ call_ids' = call_ids + 1
    /\ stream' = stream \o
          ToolCallRecords(call_ids + 1, "connect_nodes",
                          [source_label |-> source_label,
                           target_label |-> target_label],
                          [status |-> tool_ret'.status])
    /\ UNCHANGED <<parked, gen, all_past_steps, current_remaining_plan>>

\* tool_connect_nodes dispatches custom_tool_call only after add_edge.
OnToolConnectNodes(source_label, target_label) ==
    /\ gen = "streaming"
    /\ ToolConnectNodes(source_label, target_label)
    /\ IF tool_ret'.status = "success"
          THEN /\ call_ids' = call_ids + 1
               /\ stream' = stream \o
                     ToolCallRecords(call_ids + 1, "connect_nodes",
                                     [source_label |-> source_label,
                                      target_label |-> target_label],
                                     [status |-> "success"])
          ELSE UNCHANGED <<call_ids, stream>>
    /\ UNCHANGED <<parked, gen, all_past_steps, current_remaining_plan>>

\* executor after its await: on_chain_end with the one new past_steps entry.
OnExecutorReturn(output) ==
    /\ gen = "streaming"
    /\ ExecutorReturn(output)
    /\ all_past_steps' = all_past_steps \o <<<<step_to_execute, output>>>>
    /\ UNCHANGED <<parked, gen, stream, current_remaining_plan, call_ids>>

\* re_planner: one custom_reasoning event, then on_chain_end with an output
\* whose "plan" is a list.
OnReplanner(decision_response, decision_plan) ==
    /\ gen = "streaming"
    /\ ~ReplannerOutputPlan(decision_response, decision_plan).isNone
    /\ ReplannerNode(decision_response, decision_plan)
    /\ current_remaining_plan' =
          ReplannerOutputPlan(decision_response, decision_plan)
    /\ stream' = stream \o
          << ReasoningChunk(<<"[Replanner] Reviewing progress">>),
             TasksRecord(CompletedItems(all_past_steps) \o
                         RemainingItems(current_remaining_plan'.steps)) >>
    /\ UNCHANGED <<parked, gen, all_past_steps, call_ids>>

\* re_planner returning {"plan": None}: completed_items + None raises
\* TypeError inside the generator, which ends the response and the graph run.
OnReplannerRaise(decision_response, decision_plan) ==
    /\ gen = "streaming"
    /\ pc = "re_planner"
    /\ ReplannerOutputPlan(decision_response, decision_plan).isNone
    /\ current_remaining_plan' = None
    /\ stream' = stream \o
          << ReasoningChunk(<<"[Replanner] Reviewing progress">>) >>
    /\ gen' = "raised"
    /\ pc' = "failed"
    /\ UNCHANGED <<variant, SESSIONS, CANVAS_DB, uuids, session, input, plan,
                   past_steps, response, step_to_execute, calls, cycle, tool_ret>>
    /\ UNCHANGED <<parked, all_past_steps, call_ids>>

\* An agent call raises: the events dispatched before the await have been
\* yielded, the exception leaves astream_events and the generator.
OnExternalFail ==
    /\ gen = "streaming"
    /\ ExternalFail
    /\ stream' = stream \o
          CASE pc = "planner" ->
                 << ReasoningChunk(<<"[Planner] Creating plan">>) >>
            [] pc = "re_planner" ->
                 << ReasoningChunk(<<"[Replanner] Reviewing progress">>) >>
            [] pc = "executor_run" -> <<>>
    /\ gen' = "raised"
    /\ UNCHANGED <<parked, all_past_steps, current_remaining_plan, call_ids>>

\* Faulty variant: the done record is yielded before the content record.
ChatFinish_DoneFirst ==
    /\ gen = "streaming"
    /\ pc = "END"
    /\ stream' = stream \o
          << DoneRecord, ContentChunk(FinalMsg(SESSIONS[session])) >>
    /\ gen' = "done"
    /\ UNCHANGED <<variant, SESSIONS, CANVAS_DB, uuids, loopVars>>
    /\ UNCHANGED <<parked, all_past_steps, current_remaining_plan, call_ids>>

\* The graph run has ended: the final content record and the done record.
ChatFinish ==
    /\ gen = "streaming"
    /\ pc = "END"
    /\ stream' = stream \o
          << ContentChunk(FinalMsg(SESSIONS[session])), DoneRecord >>
    /\ gen' = "done"
    /\ UNCHANGED <<variant, SESSIONS, CANVAS_DB, uuids, loopVars>>
    /\ UNCHANGED <<parked, all_past_steps, current_remaining_plan, call_ids>>

\* Replan phases the stream has reported so far.
Replans ==
    Cardinality({i \in 1..Len(stream) :
                    stream[i] = ReasoningChunk(<<"[Replanner] Reviewing progress">>)})

MayReplan == Replans < MaxReplans

InitApi == Init /\ variant = "backend"

NextApi ==
    \/ \E sid \in SessionIds, goal \in Goals : ChatStart(sid, goal)
    \/ \E steps \in ApiStepLists : OnPlanner(steps)
    \/ OnExecutorNoop
    \/ MayBegin /\ OnExecutorBegin
    \/ \E type \in Types, label \in ApiLabels :
          MayAddNode /\ OnToolAddNode(type, label)
    \/ \E s \in ApiLabels, t \in ApiConnectLabels :
          MayConnect(s, t) /\ OnToolConnectNodes(s, t)
    \/ \E output \in Outputs : OnExecutorReturn(output)
    \/ \E r \in OptionalResponses, p \in ApiOptionalPlans :
          MayReplan /\ OnReplanner(r, p)
    \/ \E r \in OptionalResponses, p \in ApiOptionalPlans :
          MayReplan /\ OnReplannerRaise(r, p)
    \/ OnExternalFail
    \/ ChatFinish

SpecApi == InitApi /\ [][NextApi]_vars

(***************************************************************************)
(* The end-to-end scenario: one request on a fresh process whose goal is   *)
(* "add a node A of type source and node B of type sink, connect A to B". *)
(* The planner answers with one of the plans for it, the executor agent    *)
(* makes the tool calls of the step it is given, the replanner hands back  *)
(* the steps that remain and, when none remains, the final response.       *)
(***************************************************************************)
ScenarioGoal == "add a node A of type source and node B of type sink, connect A to B"

ScenarioPlans ==
    { <<"add A", "add B", "connect A to B">>,
      <<"add B", "add A", "connect A to B">>,
      <<"add A and B", "connect A to B">>,
      <<"add B and A", "connect A to B">>,
      <<"add A", "add B and connect A to B">> }

AddCall(type, label) == [tool |-> "add_node", a |-> type, b |-> label]
ConnectCall(s, t) == [tool |-> "connect_nodes", a |-> s, b |-> t]

\* The tool calls the executor agent makes for a step.
StepCalls(step) ==
    CASE step = "add A" -> <<AddCall("source", "A")>>
      [] step = "add B" -> <<AddCall("sink", "B")>>
      [] step = "add A and B" -> <<AddCall("source", "A"), AddCall("sink", "B")>>
      [] step = "add B and A" -> <<AddCall("sink", "B"), AddCall("source", "A")>>
      [] step = "connect A to B" -> <<ConnectCall("A", "B")>>
      [] step = "add B and connect A to B" ->
            <<AddCall("sink", "B"), ConnectCall("A", "B")>>

\* The spellings under which the agent may pass a label to connect_nodes.
Spellings(label) == {label, Lower(label)}

NextCall == StepCalls(step_to_execute)[calls + 1]

ScenarioStart(sid) ==
    /\ pc = "idle"
    /\ StartRequest(sid, ScenarioGoal)
    /\ LoopOnly

ScenarioPlanner(steps) == PlannerNode(steps) /\ LoopOnly

ScenarioExecutorBegin == ExecutorBegin /\ LoopOnly

ScenarioAddNode ==
    /\ pc = "executor_run"
    /\ calls < Len(StepCalls(step_to_execute))
    /\ NextCall.tool = "add_node"
    /\ ToolAddNode(NextCall.a, NextCall.b)
    /\ LoopOnly

ScenarioConnectNodes(s, t) ==
    /\ pc = "executor_run"
    /\ calls < Len(StepCalls(step_to_execute))
    /\ NextCall.tool = "connect_nodes"
    /\ s \in Spellings(NextCall.a)
    /\ t \in Spellings(NextCall.b)
    /\ ToolConnectNodes(s, t)
    /\ LoopOnly

ScenarioExecutorReturn(output) ==
    /\ pc = "executor_run"
    /\ calls = Len(StepCalls(step_to_execute))
    /\ ExecutorReturn(output)
    /\ LoopOnly

\* The replanner hands back the steps after the one just run.
ScenarioReplanMore(r) ==
    /\ pc = "re_planner"
    /\ Len(plan.steps) > 1
    /\ ReplannerNode(r, PyList(Tail(plan.steps)))
    /\ LoopOnly

\* The replanner finds every step done and gives the final response.
ScenarioReplanDone(p) ==
    /\ pc = "re_planner"
    /\ Len(plan.steps) = 1
    /\ ReplannerNode("Done", p)
    /\ LoopOnly

NextScenario ==
    \/ \E sid \in SessionIds : ScenarioStart(sid)
    \/ \E steps \in ScenarioPlans : ScenarioPlanner(steps)
    \/ ScenarioExecutorBegin
    \/ ScenarioAddNode
    \/ \E s \in Labels \cup {"b"}, t \in Labels \cup {"b"} :
          ScenarioConnectNodes(s, t)
    \/ \E output \in Outputs : ScenarioExecutorReturn(output)
    \/ \E r \in {NoneStr, ""} : ScenarioReplanMore(r)
    \/ \E p \in {None, PyList(<<>>)} : ScenarioReplanDone(p)

SpecScenario == Init /\ [][NextScenario]_vars

(***************************************************************************)
(* Concurrent requests.  Each POST /api/chat runs its event_generator as   *)
(* a task of the one asyncio event loop; a task gives way at its awaits    *)
(* (the agent calls, and the steps of the graph run between nodes), and    *)
(* the tools run while the executor agent call is pending.  Two tasks are  *)
(* modelled: the one whose step is taken next, held in the loop            *)
(* variables, and the suspended one, held in parked.  A tool body reads    *)
(* the node list and appends at most once to lists that only grow, so its  *)
(* effect is that of one step taken at the append.                         *)
(***************************************************************************)
ConcSessionIds == {"default", "other"}

\* The agent calls return here, and the replanner's plan is a list.
ConcPlans == {PyList(l) : l \in ApiStepLists}

\* The loop state of the running task as one record.
LoopRecord ==
    [session |-> session, pc |-> pc, input |-> input, plan |-> plan,
     past_steps |-> past_steps, response |-> response,
     step_to_execute |-> step_to_execute, calls |-> calls, cycle |-> cycle,
     tool_ret |-> tool_ret]

\* The event loop resumes the suspended task and suspends the running one.
Switch ==
    /\ parked' = LoopRecord
    /\ session' = parked.session
    /\ pc' = parked.pc
    /\ input' = parked.input
    /\ plan' = parked.plan
    /\ past_steps' = parked.past_steps
    /\ response' = parked.response
    /\ step_to_execute' = parked.step_to_execute
    /\ calls' = parked.calls
    /\ cycle' = parked.cycle
    /\ tool_ret' = parked.tool_ret
    /\ UNCHANGED <<variant, SESSIONS, CANVAS_DB, uuids, apiVars>>

InitConc == Init /\ variant = "backend"

NextConc ==
    \/ \E sid \in ConcSessionIds, goal \in Goals :
          StartRequest(sid, goal) /\ LoopOnly
    \/ \E steps \in ApiStepLists : PlannerNode(steps) /\ LoopOnly
    \/ ExecutorNoop /\ LoopOnly
    \/ MayBegin /\ ExecutorBegin /\ LoopOnly
    \/ \E type \in Types, label \in ApiLabels :
          MayAddNode /\ ToolAddNode(type, label) /\ LoopOnly
    \/ \E s \in ApiLabels, t \in ApiLabels :
          MayConnect(s, t) /\ ToolConnectNodes(s, t) /\ LoopOnly
    \/ \E output \in Outputs : ExecutorReturn(output) /\ LoopOnly
    \/ \E r \in Responses, p \in ConcPlans :
          ReplannerNode(r, p) /\ LoopOnly
    \/ Switch

SpecConc == InitConc /\ [][NextConc]_vars

(***************************************************************************)
(* Runs in which every external call returns: the steps of Next except     *)
(* the failure of an agent call.                                           *)
(***************************************************************************)
NextReturns ==
    \/ \E sid \in SessionIds, goal \in Goals :
          StartRequest(sid, goal) /\ LoopOnly
    \/ \E steps \in StepLists : PlannerNode(steps) /\ LoopOnly
    \/ ExecutorNoop /\ LoopOnly
    \/ ExecutorRaise /\ LoopOnly
    \/ MayBegin /\ ExecutorBegin /\ LoopOnly
    \/ \E type \in Types, label \in Labels :
          MayAddNode /\ ToolAddNode(type, label) /\ LoopOnly
    \/ \E s \in Labels, t \in Labels :
          MayConnect(s, t) /\ ToolConnectNodes(s, t) /\ LoopOnly
    \/ \E output \in Outputs : ExecutorReturn(output) /\ LoopOnly
    \/ \E r \in OptionalResponses, p \in OptionalPlans :
          ReplannerNode(r, p) /\ LoopOnly

SpecReturns == Init /\ [][NextReturns]_vars

(***************************************************************************)
(* Helpers of the properties.                                              *)
(***************************************************************************)
IsPrefix(a, b) == Len(a) <= Len(b) /\ SubSeq(b, 1, Len(a)) = a

CanvasUnchanged == SESSIONS' = SESSIONS /\ CANVAS_DB' = CANVAS_DB

(***************************************************************************)
(* C1: After a Replan phase the loop ends if and only if the replanner's   *)
(* output carries a non-empty response, whatever plan the same output      *)
(* carries; the loop ends after no other phase; and in the terminated      *)
(* loop state the plan is the empty list.                                  *)
(***************************************************************************)
C1_TerminatesIffFinalResponse ==
    [][ /\ \A r \in OptionalResponses, p \in OptionalPlans :
              ReplannerNode(r, p) => (pc' = "END" <=> (r # NoneStr /\ r # ""))
        /\ (pc' = "END" /\ pc # "END") => pc = "re_planner"
        /\ pc' = "END" => (plan' = PyList(<<>>) /\ response' \notin {NoneStr, ""})
      ]_vars

\* A loop that ran at least one Execute phase has terminated with a response.
C1_Witness == pc = "END" /\ response = "Done" /\ cycle >= 1

(***************************************************************************)
(* C2: An Execute phase entered with a plan of length >= 1 runs exactly    *)
(* the plan's first element, and the history grows by exactly one entry,   *)
(* that step paired with its result.                                       *)
(***************************************************************************)
C2_OneStepPerExecute ==
    [][ /\ (pc = "executor" /\ pc' = "executor_run")
              => step_to_execute' = plan.steps[1]
        /\ \A o \in Outputs :
              ExecutorReturn(o)
                  => past_steps' = Append(past_steps, <<plan.steps[1], o>>)
      ]_vars

(***************************************************************************)
(* C3: An Execute phase entered with an empty plan appends no history      *)
(* entry, makes no executor or tool call (the canvas is unchanged) and     *)
(* goes on to Replan without failing.                                      *)
(***************************************************************************)
C3_EmptyPlanIsNoop ==
    [][ (pc = "executor" /\ plan = PyList(<<>>) /\ pc' # pc)
            => /\ pc' = "re_planner"
               /\ past_steps' = past_steps
               /\ CanvasUnchanged
      ]_vars

(***************************************************************************)
(* C4: Within one request the history only grows at its end, by zero or    *)
(* one entry per step, and after k Execute phases on non-empty plans the   *)
(* replanner sees all k entries.                                           *)
(***************************************************************************)
C4_HistoryAppendOnly ==
    /\ [][ pc' # "planner"
              => /\ IsPrefix(past_steps, past_steps')
                 /\ Len(past_steps') <= Len(past_steps) + 1 ]_vars
    /\ [](pc = "re_planner" => Len(past_steps) = cycle)

(***************************************************************************)
(* C5: A Replan phase whose output has no non-empty response sends the     *)
(* loop to Execute with the plan replaced by the steps the replanner       *)
(* returned, and that Execute runs the first element of this plan.        *)
(***************************************************************************)
C5_ReplanReplacesPlan ==
    [][ /\ \A r \in OptionalResponses, p \in OptionalPlans :
              (ReplannerNode(r, p) /\ (r = NoneStr \/ r = ""))
                  => (pc' = "executor" /\ plan' = p)
        /\ (pc = "executor" /\ pc' = "executor_run" /\ cycle >= 1)
              => step_to_execute' = plan.steps[1]
      ]_vars

\* The second Execute of a request runs a step other than the first one ran.
C5_Witness ==
    /\ pc = "executor_run"
    /\ cycle = 1
    /\ Len(past_steps) = 1
    /\ step_to_execute = plan.steps[1]
    /\ step_to_execute # past_steps[1][1]

Matches(nodes, i, label) == Lower(nodes[i].label) = Lower(label)

NoMatch(nodes, label) == \A i \in 1..Len(nodes) : ~Matches(nodes, i, label)

\* nodes[i] is the first node, in insertion order, whose label matches.
IsFirst(nodes, i, label) ==
    /\ Matches(nodes, i, label)
    /\ \A k \in 1..(i - 1) : ~Matches(nodes, k, label)

AllCanvases == {CANVAS_DB} \cup {SESSIONS[k] : k \in DOMAIN SESSIONS}

IdsOf(c) == {c.nodes[i].id : i \in 1..Len(c.nodes)}

(***************************************************************************)
(* C7: connectNodes on a canvas where no node's label equals the source    *)
(* label ignoring case returns the "source not found" message, whether or  *)
(* not the target label exists; nothing is raised and the canvas is        *)
(* unchanged.                                                              *)
(***************************************************************************)
C7_SourceNotFound ==
    [][ \A s \in Labels, t \in Labels :
          (ToolConnectNodes(s, t) /\ NoMatch(Canvas.nodes, s))
              => /\ tool_ret' = [status |-> "Error",
                                 msg |-> <<"Source node", s, "not found.">>,
                                 id |-> 0]
                 /\ CanvasUnchanged
                 /\ pc' = pc
      ]_vars

\* "source not found" was returned on a canvas that holds a node labelled B
\* (a target that exists) and none matching the source a.
C7_Witness ==
    /\ pc = "executor_run"
    /\ tool_ret.msg = <<"Source node", "a", "not found.">>
    /\ Len(Canvas.nodes) >= 1
    /\ \A i \in 1..Len(Canvas.nodes) : Canvas.nodes[i].label = "B"

(***************************************************************************)
(* C8: connectNodes with both labels present (ignoring case) appends       *)
(* exactly one edge, from the first node matching the source label to the  *)
(* first node matching the target label; nodes and earlier edges are       *)
(* unchanged.                                                              *)
(***************************************************************************)
C8_ConnectAppendsOneEdge ==
    [][ \A s \in Labels, t \in Labels :
          (/\ ToolConnectNodes(s, t)
           /\ ~NoMatch(Canvas.nodes, s)
           /\ ~NoMatch(Canvas.nodes, t))
              => LET c == Canvas
                     d == Canvas'
                 IN  /\ d.nodes = c.nodes
                     /\ Len(d.edges) = Len(c.edges) + 1
                     /\ SubSeq(d.edges, 1, Len(c.edges)) = c.edges
                     /\ \E i \in 1..Len(c.nodes), j \in 1..Len(c.nodes) :
                           /\ IsFirst(c.nodes, i, s)
                           /\ IsFirst(c.nodes, j, t)
                           /\ d.edges[Len(d.edges)] =
                                 [source |-> c.nodes[i].id,
                                  target |-> c.nodes[j].id]
                     /\ tool_ret'.status = "success"
      ]_vars

\* Two nodes whose labels differ only in case; a connect by the lower-case
\* label closed the edge on the first of them.
C8_Witness ==
    /\ pc = "executor_run"
    /\ tool_ret.msg = <<"Connected", "a", "a">>
    /\ Len(Canvas.nodes) = 2
    /\ Canvas.nodes[1].label = "A"
    /\ Canvas.nodes[2].label = "a"
    /\ Len(Canvas.edges) = 1
    /\ Canvas.edges[1] = [source |-> Canvas.nodes[1].id,
                          target |-> Canvas.nodes[1].id]

(***************************************************************************)
(* C9: connectNodes where the source label matches a node (ignoring case)  *)
(* but no node matches the target label returns the "target not found"     *)
(* message; nothing is raised and the canvas is unchanged.                 *)
(***************************************************************************)
C9_TargetNotFound ==
    [][ \A s \in Labels, t \in Labels :
          (/\ ToolConnectNodes(s, t)
           /\ ~NoMatch(Canvas.nodes, s)
           /\ NoMatch(Canvas.nodes, t))
              => /\ tool_ret' = [status |-> "Error",
                                 msg |-> <<"Target node", t, "not found.">>,
                                 id |-> 0]
                 /\ CanvasUnchanged
                 /\ pc' = pc
      ]_vars

\* "target not found" was returned on a canvas whose nodes all match A.
C9_Witness ==
    /\ pc = "executor_run"
    /\ tool_ret.msg = <<"Target node", "B", "not found.">>
    /\ Len(Canvas.nodes) >= 1
    /\ \A i \in 1..Len(Canvas.nodes) : Lower(Canvas.nodes[i].label) = "a"

(***************************************************************************)
(* C10: addNode appends exactly one node, with the given type and label    *)
(* and an id no node of any canvas carries, and leaves the edges alone;    *)
(* hence the node ids of a canvas are pairwise distinct, also across       *)
(* requests, and equal (type, label) pairs are not merged.                 *)
(***************************************************************************)
C10_AddNodeFreshId ==
    /\ [](\A c \in AllCanvases :
            \A i \in 1..Len(c.nodes), j \in 1..Len(c.nodes) :
                i # j => c.nodes[i].id # c.nodes[j].id)
    /\ [][ \A ty \in Types, l \in Labels :
             ToolAddNode(ty, l)
                => LET c == Canvas
                       d == Canvas'
                   IN  /\ Len(d.nodes) = Len(c.nodes) + 1
                       /\ SubSeq(d.nodes, 1, Len(c.nodes)) = c.nodes
                       /\ d.nodes[Len(d.nodes)].type = ty
                       /\ d.nodes[Len(d.nodes)].label = l
                       /\ \A o \in AllCanvases :
                             d.nodes[Len(d.nodes)].id \notin IdsOf(o)
                       /\ d.edges = c.edges
                       /\ tool_ret'.status = "success"
                       /\ tool_ret'.id = d.nodes[Len(d.nodes)].id
         ]_vars

\* The first Execute of a request has just added a node whose type and
\* label equal those of a node an earlier request added.
C10_Witness ==
    /\ pc = "executor_run"
    /\ cycle = 0
    /\ calls = 1
    /\ tool_ret.msg = <<"Added node", "A">>
    /\ Len(Canvas.nodes) = 2
    /\ Canvas.nodes[1].type = Canvas.nodes[2].type
    /\ Canvas.nodes[1].label = Canvas.nodes[2].label
    /\ Canvas.nodes[1].id # Canvas.nodes[2].id

(***************************************************************************)
(* C11: In every canvas reachable from the empty canvas through add-node   *)
(* and connect-nodes calls, successful or failed, the source and the       *)
(* target of every edge are ids of nodes of the same canvas.               *)
(***************************************************************************)
C11_EdgesReferenceNodes ==
    \A c \in AllCanvases :
        \A i \in 1..Len(c.edges) :
            c.edges[i].source \in IdsOf(c) /\ c.edges[i].target \in IdsOf(c)

\* A canvas holds an edge, appended by the connect call that just returned.
C11_Witness ==
    /\ pc = "executor_run"
    /\ calls = 1
    /\ tool_ret.status = "success"
    /\ tool_ret.msg[1] = "Connected"
    /\ Len(Canvas.edges) = 1
    /\ Len(Canvas.nodes) >= 1

(***************************************************************************)
(* C14: A failure of an external planner, executor or replanner call       *)
(* aborts the loop of the request: the run ends in the failed position,    *)
(* the failed phase appends no history entry and writes no plan or         *)
(* response, the canvas keeps the mutations made before the failure, and   *)
(* after the failure no phase of that request runs and no call is made     *)
(* again: the only step that follows is the start of a new request.        *)
(***************************************************************************)
C14_FailureAborts ==
    [][ /\ ExternalFail =>
              /\ pc' = "failed"
              /\ past_steps' = past_steps
              /\ plan' = plan /\ response' = response
              /\ CanvasUnchanged
        /\ pc = "failed" =>
              /\ \E sid \in SessionIds, goal \in Goals : StartRequest(sid, goal)
              /\ \A k \in DOMAIN SESSIONS : SESSIONS'[k] = SESSIONS[k]
              /\ CANVAS_DB' = CANVAS_DB
      ]_vars

\* The executor call of the first Execute phase has failed after its one tool
\* call added a node: the node is in the canvas, the history is empty.
C14_Witness ==
    /\ pc = "failed"
    /\ cycle = 0
    /\ calls = 1
    /\ tool_ret.status = "success"
    /\ tool_ret.id = 1
    /\ past_steps = <<>>
    /\ Len(Canvas.nodes) = 1
    /\ Canvas.nodes[1].id = 1

(***************************************************************************)
(* C12: When the loop has terminated, the terminal output delivered to the *)
(* consumer holds the replanner's final response text together with the    *)
(* canvas snapshot at loop end.                                            *)
(***************************************************************************)
C12_TerminalOutput ==
    \A i \in 1..Len(stream) :
        stream[i].type = "content_chunk" =>
            /\ stream[i].text.canvas = get_state(SESSIONS[session])
            /\ "response" \in DOMAIN stream[i].text
            /\ stream[i].text.response = response

(***************************************************************************)
(* C19: In the event stream of a request every tool-call record is         *)
(* immediately followed by a tool-result record with the same toolCallId,  *)
(* toolName and input, every tool-result record immediately follows such   *)
(* a tool-call record, and a tool execution reported by the loop adds      *)
(* exactly this pair to the stream.                                        *)
(***************************************************************************)
IsToolRecord(rec, kind) == rec.type = "tool_call" /\ rec.tool.type = kind

SamePair(call, result) ==
    /\ IsToolRecord(call, "tool-call")
    /\ call.tool.state = "input-available"
    /\ IsToolRecord(result, "tool-result")
    /\ result.tool.state = "output-available"
    /\ result.tool.toolCallId = call.tool.toolCallId
    /\ result.tool.toolName = call.tool.toolName
    /\ result.tool.input = call.tool.input

ToolRecordCount ==
    Cardinality({i \in 1..Len(stream) : stream[i].type = "tool_call"})

C19_ToolCallPairs ==
    /\ \A i \in 1..Len(stream) :
          /\ IsToolRecord(stream[i], "tool-call") =>
                i < Len(stream) /\ SamePair(stream[i], stream[i + 1])
          /\ IsToolRecord(stream[i], "tool-result") =>
                i > 1 /\ SamePair(stream[i - 1], stream[i])
    /\ gen = "streaming" /\ pc = "executor_run" /\ tool_ret.status = "success"
          => /\ Len(stream) >= 2
             /\ SamePair(stream[Len(stream) - 1], stream[Len(stream)])

\* The stream of one request reports an add_node call and, later, a
\* connect_nodes call, with other records between the two pairs.
C19_Witness ==
    \E i \in 1..Len(stream), j \in 1..Len(stream) :
        /\ i + 2 < j
        /\ IsToolRecord(stream[i], "tool-call")
        /\ stream[i].tool.toolName = "add_node"
        /\ IsToolRecord(stream[j], "tool-call")
        /\ stream[j].tool.toolName = "connect_nodes"
        /\ ToolRecordCount = 4

(***************************************************************************)
(* C20: The tasks record emitted after the Plan phase lists exactly the    *)
(* planner's steps; after every Replan phase a tasks record is emitted     *)
(* that lists one checked item per history entry of the request, in        *)
(* order, followed by the remaining steps of the replanner's output, for   *)
(* every replanner output: also the terminating one and one that carries   *)
(* no plan.                                                                *)
(***************************************************************************)
LastRecord(st) == st[Len(st)]

PlanSteps(p) == IF p.isNone THEN <<>> ELSE p.steps

C20_TasksRecords ==
    [][ /\ \A steps \in ApiStepLists :
              OnPlanner(steps) =>
                  LastRecord(stream') = TasksRecord(RemainingItems(steps))
        /\ \A r \in OptionalResponses, p \in ApiOptionalPlans :
              (OnReplanner(r, p) \/ OnReplannerRaise(r, p)) =>
                  /\ Len(stream') > Len(stream)
                  /\ LastRecord(stream') =
                        TasksRecord(CompletedItems(past_steps) \o
                                    RemainingItems(PlanSteps(
                                        ReplannerOutputPlan(r, p))))
      ]_vars

\* C20 for the replanner outputs whose plan is a list.
C20_TasksRecords_ListPlans ==
    [][ /\ \A steps \in ApiStepLists :
              OnPlanner(steps) =>
                  LastRecord(stream') = TasksRecord(RemainingItems(steps))
        /\ \A r \in OptionalResponses, p \in ApiOptionalPlans :
              OnReplanner(r, p) =>
                  /\ Len(stream') > Len(stream)
                  /\ LastRecord(stream') =
                        TasksRecord(CompletedItems(past_steps) \o
                                    RemainingItems(PlanSteps(
                                        ReplannerOutputPlan(r, p))))
      ]_vars

(***************************************************************************)
(* C13: End-to-end on an empty canvas: when the planner yields a plan of   *)
(* two or more steps for "add node A of type source, add node B of type    *)
(* sink, connect A to B", each Execute makes the tool calls of its step    *)
(* and the replanner returns the remaining steps and then a final          *)
(* response, the executor is never entered with an empty plan and the      *)
(* loop ends with a canvas of exactly two nodes with distinct ids and      *)
(* labels "A" and "B" and exactly one edge from A's id to B's id.          *)
(***************************************************************************)
C13_ScenarioCanvas ==
    /\ pc = "executor" => TruthyList(plan)
    /\ pc # "failed"
    /\ pc = "END" =>
          LET c == Canvas
          IN  /\ Len(c.nodes) = 2
              /\ c.nodes[1].id # c.nodes[2].id
              /\ {c.nodes[1].label, c.nodes[2].label} = {"A", "B"}
              /\ Len(c.edges) = 1
              /\ \E i \in 1..2, j \in 1..2 :
                    /\ c.nodes[i].label = "A" /\ c.nodes[i].type = "source"
                    /\ c.nodes[j].label = "B" /\ c.nodes[j].type = "sink"
                    /\ c.edges[1] = [source |-> c.nodes[i].id,
                                     target |-> c.nodes[j].id]

\* The three-step plan that adds B first has been run to the end.
C13_Witness ==
    /\ pc = "END"
    /\ response = "Done"
    /\ cycle = 3
    /\ Len(Canvas.nodes) = 2
    /\ Canvas.nodes[1].label = "B"

(***************************************************************************)
(* C15: Concurrent requests on one session id work on the one shared       *)
(* canvas with nothing between them: a connect call of one request         *)
(* succeeds exactly when both labels match a node of the shared canvas as  *)
(* it is at the call, whichever request added the node.  When the other    *)
(* request, suspended in the middle of its Execute phase, has just added   *)
(* the node a label matches first, the call succeeds where it would have   *)
(* failed without that node, and the edge it appends is closed on the      *)
(* other request's node.                                                   *)
(***************************************************************************)
ParkedAdded(c, label) ==
    /\ parked.session = session
    /\ parked.pc = "executor_run"
    /\ parked.tool_ret.status = "success"
    /\ parked.tool_ret.id # 0
    /\ Lower(parked.tool_ret.msg[2]) = Lower(label)
    /\ \A i \in 1..Len(c.nodes) :
          Matches(c.nodes, i, label) => c.nodes[i].id >= parked.tool_ret.id

C15_SharedCanvasRace ==
    [][ \A s \in ApiLabels, t \in ApiLabels :
          ToolConnectNodes(s, t) =>
              LET c == SESSIONS[session]
                  d == SESSIONS'[session]
              IN  /\ tool_ret'.status = "success" <=>
                        (~NoMatch(c.nodes, s) /\ ~NoMatch(c.nodes, t))
                  /\ tool_ret'.status # "success" => d = c
                  /\ (~NoMatch(c.nodes, s) /\ ParkedAdded(c, t)) =>
                        /\ tool_ret'.status = "success"
                        /\ Len(d.edges) = Len(c.edges) + 1
                        /\ d.edges[Len(d.edges)].target = parked.tool_ret.id
      ]_vars

\* The running request's first tool call was a connect that succeeded on a
\* canvas whose only node was added by the other request, which is still in
\* the middle of its own first Execute phase.
C15_Witness ==
    /\ pc = "executor_run"
    /\ cycle = 0
    /\ calls = 1
    /\ tool_ret.status = "success"
    /\ tool_ret.msg[1] = "Connected"
    /\ parked.session = session
    /\ parked.pc = "executor_run"
    /\ parked.cycle = 0
    /\ parked.calls = 1
    /\ parked.tool_ret.id # 0
    /\ LET c == SESSIONS[session]
       IN  /\ Len(c.nodes) = 1
           /\ c.nodes[1].id = parked.tool_ret.id
           /\ Len(c.edges) = 1
           /\ c.edges[1].target = parked.tool_ret.id

(***************************************************************************)
(* C16: Concurrent requests are independent except for the canvas of       *)
(* their session id: a step of a request on session id s leaves the        *)
(* canvas of every other session id as it is, and leaves the goal, plan,   *)
(* history and every other field of the other request as they are, also    *)
(* when both are on the same session id; a task switch changes no request  *)
(* and no canvas.                                                          *)
(***************************************************************************)
C16_RequestsIndependent ==
    [][ \/ /\ parked' = parked
           /\ DOMAIN SESSIONS \subseteq DOMAIN SESSIONS'
           /\ \A k \in DOMAIN SESSIONS :
                 k # session => SESSIONS'[k] = SESSIONS[k]
        \/ /\ parked' = LoopRecord
           /\ LoopRecord' = parked
           /\ SESSIONS' = SESSIONS
      ]_vars

\* Two requests on different session ids are both in an Execute phase, each
\* session's canvas holds a node, and the running one has just made a call.
C16_Witness ==
    /\ pc = "executor_run"
    /\ calls = 1
    /\ tool_ret.status = "success"
    /\ parked.pc = "executor_run"
    /\ parked.session # session
    /\ parked.past_steps # <<>>
    /\ Len(SESSIONS[session].nodes) >= 1
    /\ Len(SESSIONS[parked.session].nodes) >= 1

(***************************************************************************)
(* C17: Across requests only the session canvas carries over: a request    *)
(* starts with plan = [] and history = [] and no response; the canvas of   *)
(* its session id is created empty on first use and is otherwise the one   *)
(* earlier and concurrent requests with that id have worked on; no         *)
(* session is ever evicted and no canvas is replaced or reset: its node    *)
(* and edge lists only grow at the end.                                    *)
(***************************************************************************)
C17_OnlyCanvasCarriesOver ==
    [][ /\ \A sid \in ConcSessionIds, goal \in Goals :
              StartRequest(sid, goal) =>
                  /\ plan' = PyList(<<>>)
                  /\ past_steps' = <<>>
                  /\ response' = NoneStr
                  /\ sid \in DOMAIN SESSIONS'
                  /\ SESSIONS'[sid] = IF sid \in DOMAIN SESSIONS
                                         THEN SESSIONS[sid] ELSE EmptyCanvas
        /\ DOMAIN SESSIONS \subseteq DOMAIN SESSIONS'
        /\ \A k \in DOMAIN SESSIONS :
              /\ IsPrefix(SESSIONS[k].nodes, SESSIONS'[k].nodes)
              /\ IsPrefix(SESSIONS[k].edges, SESSIONS'[k].edges)
      ]_vars

\* A request has just started on a session id whose canvas holds a node and
\* an edge left by a request that has ended with a non-empty history.
C17_Witness ==
    /\ pc = "planner"
    /\ plan = PyList(<<>>)
    /\ past_steps = <<>>
    /\ parked.session = session
    /\ parked.pc = "END"
    /\ parked.past_steps # <<>>
    /\ Len(SESSIONS[session].nodes) >= 1
    /\ Len(SESSIONS[session].edges) >= 1

(***************************************************************************)
(* C18: The loop keeps cycling Execute and Replan until done and then      *)
(* stops.  When every external call returns, a request stops nowhere but   *)
(* at its termination: no phase ends the run in another way, so a          *)
(* replanner that eventually gives a non-empty response brings every       *)
(* request to termination; and a Replan phase without a non-empty          *)
(* response always leads to another Execute phase, however many cycles     *)
(* have been run: the controller has no cycle bound.                       *)
(***************************************************************************)
CyclesUntilDone ==
    /\ pc' # "failed"
    /\ \A r \in OptionalResponses, p \in OptionalPlans :
          ReplannerNode(r, p) =>
              pc' = IF TruthyStr(r) THEN "END" ELSE "executor"
    /\ pc = "executor" => pc' \in {"executor", "executor_run", "re_planner"}
    /\ pc = "executor_run" => pc' \in {"executor_run", "re_planner"}

C18_CyclesUntilDone == [][CyclesUntilDone]_vars

\* C18 for the backend build alone.
C18_CyclesUntilDone_Backend == [][variant = "backend" => CyclesUntilDone]_vars

(***************************************************************************)
(* C21: The stream of a request whose loop terminates ends with exactly    *)
(* one content_chunk record followed by exactly one done record: done is   *)
(* the last record and appears once, nothing follows the content_chunk     *)
(* but done, and neither record is in the stream before the generator has  *)
(* left its loop; a terminated loop's generator has not raised, and its    *)
(* next step is the one that yields the two records.                       *)
(***************************************************************************)
RecordsOfType(type) == {i \in 1..Len(stream) : stream[i].type = type}

C21_StreamEnd ==
    /\ pc = "END" => gen \in {"streaming", "done"}
    /\ pc = "END" /\ gen = "streaming" => ENABLED ChatFinish
    /\ gen = "done" =>
          /\ pc = "END"
          /\ Len(stream) >= 2
          /\ RecordsOfType("done") = {Len(stream)}
          /\ RecordsOfType("content_chunk") = {Len(stream) - 1}
    /\ gen # "done" =>
          RecordsOfType("done") \cup RecordsOfType("content_chunk") = {}

\* A request with a tool call and a Replan phase that went on has ended and
\* its stream is complete.
C21_Witness ==
    /\ gen = "done"
    /\ RecordsOfType("tool_call") # {}
    /\ Cardinality(RecordsOfType("tasks")) >= 3
    /\ stream[Len(stream)] = DoneRecord

(***************************************************************************)
(* C22: The tool_call records of a request correspond one-to-one to the    *)
(* request's successful canvas mutations: the stream starts with no        *)
(* record, every step of the request adds as many tool-call/tool-result    *)
(* pairs to the stream as it appends nodes and edges to the canvas, and a  *)
(* connect call that fails with source or target not found adds no record  *)
(* and appends nothing.                                                    *)
(***************************************************************************)
CanvasSize(c) == Len(c.nodes) + Len(c.edges)

C22_RecordsMatchMutations ==
    [][ /\ \A sid \in SessionIds, goal \in Goals :
              ChatStart(sid, goal) =>
                  /\ ToolRecordCount' = 0
                  /\ sid \in DOMAIN SESSIONS => SESSIONS'[sid] = SESSIONS[sid]
        /\ gen = "streaming" =>
              /\ session' = session
              /\ ToolRecordCount' - ToolRecordCount =
                    2 * (CanvasSize(SESSIONS'[session]) -
                         CanvasSize(SESSIONS[session]))
        /\ \A s \in ApiLabels, t \in ApiConnectLabels :
              (OnToolConnectNodes(s, t) /\ tool_ret'.status = "Error") =>
                  /\ stream' = stream
                  /\ SESSIONS' = SESSIONS
      ]_vars

\* A connect call has just failed in a request whose stream holds the pair of
\* an earlier add_node call.
C22_Witness ==
    /\ gen = "streaming"
    /\ pc = "executor_run"
    /\ calls = 1
    /\ tool_ret.status = "Error"
    /\ ToolRecordCount = 2
    /\ cycle >= 1

(***************************************************************************)
(* C23: In every reachable loop state the plan is a list of step strings,  *)
(* possibly empty: whatever the replanner's output is, also one with an    *)
(* empty response and no plan, the plan handed to the next Execute phase   *)
(* is a list, the loop goes on to that Execute phase, and the phase does   *)
(* not fail on the plan it is handed.                                      *)
(***************************************************************************)
C23_PlanIsList ==
    [][ /\ ~plan'.isNone
        /\ \A r \in OptionalResponses, p \in OptionalPlans :
              (ReplannerNode(r, p) /\ ~TruthyStr(r)) => pc' = "executor"
        /\ plan.isNone => ~ExecutorRaise
      ]_vars

(***************************************************************************)
(* C24: The Execute phase leaves the goal and the plan of the loop state   *)
(* unchanged: the step it ran stays the plan's first element, so the       *)
(* replanner is shown the plan that still holds that step.  The plan       *)
(* changes only in the Plan and Replan phases (and is reset when a new     *)
(* request starts); a replanner that returns the plan unchanged sends the  *)
(* loop to an Execute phase that runs the same first step again.           *)
(***************************************************************************)
C24_ExecuteKeepsPlan ==
    [][ /\ pc \in {"executor", "executor_run"} =>
              plan' = plan /\ input' = input
        /\ \A output \in Outputs :
              ExecutorReturn(output) =>
                  /\ pc' = "re_planner"
                  /\ TruthyList(plan')
                  /\ plan'.steps[1] = past_steps'[Len(past_steps')][1]
        /\ plan' # plan =>
              \/ pc \in {"planner", "re_planner"}
              \/ \E sid \in SessionIds, goal \in Goals : StartRequest(sid, goal)
        /\ \A r \in OptionalResponses :
              (ReplannerNode(r, plan) /\ ~TruthyStr(r)) =>
                  plan' = plan /\ pc' = "executor"
        /\ ExecutorBegin => step_to_execute' = plan.steps[1]
      ]_vars

\* The second Execute phase of a request is running the step the first one
\* ran: the step is the plan's first element and the last history entry.
C24_Witness ==
    /\ pc = "executor_run"
    /\ cycle = 1
    /\ past_steps # <<>>
    /\ step_to_execute = past_steps[Len(past_steps)][1]
    /\ plan.steps[1] = step_to_execute
    /\ Len(plan.steps) = 2

=============================================================================
